---- MODULE Spec2Model ----
(***************************************************************************)
(* Model of the cloudflare-configurator charm (src/src/charm.py) and of    *)
(* the cloudflared_route interface library                                 *)
(* (src/lib/charms/cloudflare_configurator/v0/cloudflared_route.py).       *)
(*                                                                         *)
(* State: the cloudflared-route relation and the local application         *)
(* databag of it, the ingress relation and its published record, the       *)
(* secrets owned by the application, and the unit status.  Every handler   *)
(* and every public method of the library is one action; what a handler    *)
(* does is computed by the operators below, statement by statement, on a   *)
(* record "m" that carries the mutable world through the handler.          *)
(***************************************************************************)
EXTENDS Integers, Sequences, FiniteSets, TLC

VARIABLES
    relation,          \* the cloudflared-route relation exists
    data,              \* relation.data[charm.app] of the cloudflared-route relation
    store,             \* secrets owned by the application, by secret id
    created,           \* number of secrets the application has created so far
    ingress_relation,  \* an ingress relation exists
    ingress,           \* the url published on the ingress relation, or None
    status,            \* self.unit.status
    last               \* the operation that ran last: inputs, exception, calls made

vars == <<relation, data, store, created, ingress_relation, ingress, status, last>>

----------------------------------------------------------------------------
(* Bounds and value sets *)

MaxSecrets == 2
MaxUnits == 2         \* units of the ingress requirer

None == "None"        \* Python None, and the absence of a key in a databag

_TUNNEL_TOKEN_SECRET_ID_FIELD == "tunnel_token_secret_id"
_TUNNEL_TOKEN_SECRET_VALUE_FIELD == "tunnel-token"
NAMESERVER_FIELD == "nameserver"

Tokens == {"foobar", "barfoo"}
Domains == {"example.com"}
Nameservers == {"1.1.1.1"}
ClusterDns == {"10.152.183.10"}
ConfigSecretId == "secret:config"

SecretId(n) == "secret:" \o ToString(n)
SecretIds == {SecretId(n) : n \in 1..MaxSecrets}

Keys == {_TUNNEL_TOKEN_SECRET_ID_FIELD, _TUNNEL_TOKEN_SECRET_VALUE_FIELD, NAMESERVER_FIELD}
EmptyData == [k \in Keys |-> None]

\* The content of a secret: one field and its value.
Content(field, value) == [field |-> field, value |-> value]
NoSecret == [state |-> "none", content |-> Content(None, None), granted |-> FALSE]

\* dict.get(key) on the content of a secret
content_get(content, key) == IF content.field = key THEN content.value ELSE None

\* What the "tunnel-token" option of the charm configuration points at:
\* nothing, a secret holding the tunnel-token field, a secret holding another
\* field only, or a secret that cannot be read.
CredentialConfigs ==
    {[id |-> None, found |-> FALSE, content |-> Content(None, None)]}
    \cup {[id |-> ConfigSecretId, found |-> TRUE,
           content |-> Content(_TUNNEL_TOKEN_SECRET_VALUE_FIELD, t)] : t \in Tokens}
    \cup {[id |-> ConfigSecretId, found |-> TRUE, content |-> Content("foobar", "foobar")]}
    \cup {[id |-> ConfigSecretId, found |-> FALSE, content |-> Content(None, None)]}

NoCalls == [add_secret |-> 0, grant |-> 0, set_content |-> 0, remove_all_revisions |-> 0,
            publish_url |-> 0, wipe_ingress_data |-> 0]

Falsy(v) == v = None \/ v = ""

----------------------------------------------------------------------------
(* The world a handler runs in *)

Machine ==
    [relation |-> relation, data |-> data, store |-> store, created |-> created,
     ingress_relation |-> ingress_relation, ingress |-> ingress,
     raised |-> None, calls |-> NoCalls]

Raise(m, exc) == [m EXCEPT !.raised = exc]

Called(m, name) == [m EXCEPT !.calls[name] = @ + 1]

\* relation_data[key] = value: ops removes the key when the value is "".
relation_data_set(m, key, value) ==
    [m EXCEPT !.data[key] = IF value = "" THEN None ELSE value]

\* del relation_data[key]: ops writes "" for the key, which removes it;
\* deleting a key that is not there is no error.
relation_data_del(m, key) == relation_data_set(m, key, "")

----------------------------------------------------------------------------
(* The secrets of the application, as the library uses them *)

\* ops validates the content given to add_secret and to set_content: every
\* value has to be a str, anything else is a TypeError.
valid_content(content) == content.value # None

\* self._charm.model.get_secret(id=secret_id): a secret of which all revisions
\* were removed, or that never existed, is not found.
secret_found(m, secret_id) == secret_id \in SecretIds /\ m.store[secret_id].state = "live"

\* A secret that is added and referred to but never granted to the relation.
add_secret_without_grant(m, content) ==
    IF ~valid_content(content) THEN Raise(Called(m, "add_secret"), "TypeError")
    ELSE LET id == SecretId(m.created + 1)
             m1 == [Called(m, "add_secret") EXCEPT
                      !.created = @ + 1,
                      !.store[id] = [state |-> "live", content |-> content, granted |-> FALSE]]
         IN relation_data_set(m1, _TUNNEL_TOKEN_SECRET_ID_FIELD, id)

\* self._charm.app.add_secret(content); secret.grant(relation);
\* relation_data[_TUNNEL_TOKEN_SECRET_ID_FIELD] = secret.id
add_granted_secret(m, content) ==
    IF ~valid_content(content) THEN Raise(Called(m, "add_secret"), "TypeError")
    ELSE LET id == SecretId(m.created + 1)
             m1 == [Called(m, "add_secret") EXCEPT
                      !.created = @ + 1,
                      !.store[id] = [state |-> "live", content |-> content, granted |-> FALSE]]
             m2 == [Called(m1, "grant") EXCEPT !.store[id].granted = TRUE]
         IN relation_data_set(m2, _TUNNEL_TOKEN_SECRET_ID_FIELD, id)

\* secret.set_content(content)
set_content(m, secret_id, content) ==
    IF ~valid_content(content) THEN Raise(Called(m, "set_content"), "TypeError")
    ELSE [Called(m, "set_content") EXCEPT !.store[secret_id].content = content]

\* secret.remove_all_revisions()
remove_all_revisions(m, secret_id) ==
    [Called(m, "remove_all_revisions") EXCEPT
       !.store[secret_id] = [state |-> "removed", content |-> Content(None, None),
                             granted |-> FALSE]]

----------------------------------------------------------------------------
(* CloudflaredRouteProvider *)

\* A set_tunnel_token that writes the content without comparing it first.
set_tunnel_token_always_writes(m, tunnel_token) ==
    IF m.raised # None THEN m
    ELSE IF ~m.relation THEN Raise(m, "AttributeError")
    ELSE LET secret_id == m.data[_TUNNEL_TOKEN_SECRET_ID_FIELD] IN
         IF Falsy(secret_id)
         THEN add_granted_secret(m, Content(_TUNNEL_TOKEN_SECRET_VALUE_FIELD, tunnel_token))
         ELSE IF ~secret_found(m, secret_id) THEN Raise(m, "SecretNotFoundError")
         ELSE set_content(m, secret_id,
                          Content(_TUNNEL_TOKEN_SECRET_VALUE_FIELD, tunnel_token))

\* A set_tunnel_token that adds a secret whether the databag refers to one or
\* not.
set_tunnel_token_always_adds(m, tunnel_token) ==
    IF m.raised # None THEN m
    ELSE IF ~m.relation THEN Raise(m, "AttributeError")
    ELSE add_granted_secret(m, Content(_TUNNEL_TOKEN_SECRET_VALUE_FIELD, tunnel_token))

\* set_tunnel_token(tunnel_token), relation = the only cloudflared-route relation
set_tunnel_token(m, tunnel_token) ==
    IF m.raised # None THEN m
    ELSE IF ~m.relation THEN Raise(m, "AttributeError")
    ELSE LET secret_id == m.data[_TUNNEL_TOKEN_SECRET_ID_FIELD] IN
         IF Falsy(secret_id)
         THEN add_granted_secret(m, Content(_TUNNEL_TOKEN_SECRET_VALUE_FIELD, tunnel_token))
         ELSE IF ~secret_found(m, secret_id) THEN Raise(m, "SecretNotFoundError")
         ELSE LET content == m.store[secret_id].content IN
              IF content.field # _TUNNEL_TOKEN_SECRET_VALUE_FIELD THEN Raise(m, "KeyError")
              ELSE IF content.value # tunnel_token
              THEN set_content(m, secret_id,
                               Content(_TUNNEL_TOKEN_SECRET_VALUE_FIELD, tunnel_token))
              ELSE m

\* An unset_tunnel_token that takes the nameserver away with the token.
unset_tunnel_token_with_nameserver(m) ==
    IF m.raised # None THEN m
    ELSE IF ~m.relation THEN Raise(m, "AttributeError")
    ELSE LET secret_id == m.data[_TUNNEL_TOKEN_SECRET_ID_FIELD]
             m1 == IF Falsy(secret_id) THEN m
                   ELSE IF ~secret_found(m, secret_id) THEN Raise(m, "SecretNotFoundError")
                   ELSE remove_all_revisions(m, secret_id)
         IN IF m1.raised # None THEN m1
            ELSE relation_data_del(relation_data_set(m1, _TUNNEL_TOKEN_SECRET_VALUE_FIELD, ""),
                                   NAMESERVER_FIELD)

\* unset_tunnel_token(relation)
unset_tunnel_token(m) ==
    IF m.raised # None THEN m
    ELSE IF ~m.relation THEN Raise(m, "AttributeError")
    ELSE LET secret_id == m.data[_TUNNEL_TOKEN_SECRET_ID_FIELD]
             m1 == IF Falsy(secret_id) THEN m
                   ELSE IF ~secret_found(m, secret_id) THEN Raise(m, "SecretNotFoundError")
                   ELSE remove_all_revisions(m, secret_id)
         IN IF m1.raised # None THEN m1
            ELSE relation_data_set(m1, _TUNNEL_TOKEN_SECRET_VALUE_FIELD, "")

\* A set_nameserver that leaves the key alone when there is no nameserver.
set_nameserver_keeps_key(m, nameserver) ==
    IF m.raised # None THEN m
    ELSE IF ~m.relation THEN Raise(m, "AttributeError")
    ELSE IF ~Falsy(nameserver) THEN relation_data_set(m, NAMESERVER_FIELD, nameserver)
    ELSE m

\* _on_relation_broken(event): unset_tunnel_token(event.relation).  The event
\* comes to every unit; ops lets no unit but the leader read the databag of its
\* own application, so that on another unit data.get raises.
_on_relation_broken(m, leader) ==
    IF ~leader THEN Raise(m, "RelationDataAccessError")
    ELSE unset_tunnel_token(m)

\* set_nameserver(nameserver)
set_nameserver(m, nameserver) ==
    IF m.raised # None THEN m
    ELSE IF ~m.relation THEN Raise(m, "AttributeError")
    ELSE IF ~Falsy(nameserver) THEN relation_data_set(m, NAMESERVER_FIELD, nameserver)
    ELSE relation_data_del(m, NAMESERVER_FIELD)

----------------------------------------------------------------------------
(* CloudflaredRouteRequirer: what the other side of the relation reads *)

Returned(value) == [raised |-> None, message |-> None, value |-> value]
Raised(exc) == [raised |-> exc, message |-> None, value |-> None]
RaisedWith(exc, message) == [raised |-> exc, message |-> message, value |-> None]

\* f"secret doesn't have '{_TUNNEL_TOKEN_SECRET_VALUE_FIELD}' field"
InvalidIntegrationMessage ==
    "secret doesn't have '" \o _TUNNEL_TOKEN_SECRET_VALUE_FIELD \o "' field"

\* A get_tunnel_token that takes a content without the field for no token.
get_tunnel_token_swallows(d, st) ==
    LET secret_id == d[_TUNNEL_TOKEN_SECRET_ID_FIELD] IN
    IF Falsy(secret_id) THEN Returned(None)
    ELSE IF ~(secret_id \in SecretIds /\ st[secret_id].state = "live" /\ st[secret_id].granted)
         THEN Raised("SecretNotFoundError")
    ELSE Returned(content_get(st[secret_id].content, _TUNNEL_TOKEN_SECRET_VALUE_FIELD))

\* get_tunnel_token(relation): relation.data[relation.app] is the databag the
\* provider wrote; the secret is readable by the requirer once it is granted.
get_tunnel_token(d, st) ==
    LET secret_id == d[_TUNNEL_TOKEN_SECRET_ID_FIELD] IN
    IF Falsy(secret_id) THEN Returned(None)
    ELSE IF ~(secret_id \in SecretIds /\ st[secret_id].state = "live" /\ st[secret_id].granted)
         THEN Raised("SecretNotFoundError")
    ELSE IF st[secret_id].content.field # _TUNNEL_TOKEN_SECRET_VALUE_FIELD
         THEN RaisedWith("InvalidIntegration", InvalidIntegrationMessage)
    ELSE Returned(st[secret_id].content.value)

\* get_nameserver(relation)
get_nameserver(d) == d[NAMESERVER_FIELD]

----------------------------------------------------------------------------
(* IngressPerAppProvider, as the charm uses it *)

\* The hosts of the requirer's units, in the order str compares them.
Hosts == <<"example-host-0", "example-host-1">>
HostRank(host) == CHOOSE i \in 1..Len(Hosts) : Hosts[i] = host

\* The ip of the n-th unit the requirer lists.
UnitIp(n) == "10.0.0." \o ToString(n)

\* data.app.model_dump(): what the requirer wrote, with the defaults of the
\* fields it left out.  The port is written as its digits.
RequirerAppData ==
    {[model |-> "example-model", name |-> "example", port |-> "8080",
      redirect_https |-> FALSE, scheme |-> "http", strip_prefix |-> FALSE]}
NoAppData ==
    [model |-> None, name |-> None, port |-> None,
     redirect_https |-> FALSE, scheme |-> None, strip_prefix |-> FALSE]

\* [unit.model_dump() for unit in data.units]: the units in the order the
\* ingress library lists them, which is no order of hosts.
UnitsOfHosts(hosts) == [n \in 1..Len(hosts) |-> [host |-> hosts[n], ip |-> UnitIp(n)]]
RECURSIVE HostLists(_)
HostLists(len) ==
    IF len = 0 THEN {<<>>}
    ELSE HostLists(len - 1)
         \cup {Append(hosts, Hosts[i]) : hosts \in {l \in HostLists(len - 1) : Len(l) = len - 1},
                                         i \in 1..Len(Hosts)}
RequirerUnits == {UnitsOfHosts(hosts) : hosts \in HostLists(MaxUnits)}

\* self._ingress.get_data(relation)
get_data(app, units) == [app |-> app, units |-> units]
NoRequirerData == get_data(NoAppData, <<>>)

\* A unit-data that is dumped in the order the units are listed.
unit_data_as_listed(units) == units

\* sorted(units, key=lambda unit: unit["host"]): units of the same host stay
\* in the order they had.
RECURSIVE sorted_by_host(_)
sorted_by_host(units) ==
    IF units = <<>> THEN <<>>
    ELSE LET before == sorted_by_host(SubSeq(units, 1, Len(units) - 1))
             unit == units[Len(units)]
             k == Cardinality({i \in 1..Len(before) :
                                 HostRank(before[i].host) <= HostRank(unit.host)})
         IN SubSeq(before, 1, k) \o <<unit>> \o SubSeq(before, k + 1, Len(before))

\* A list of ingress relations that is never empty.
ingress_relations_any(m) == TRUE

\* self._ingress.relations
ingress_relations(m) == m.ingress_relation

\* A publish_url that is called and writes nothing.
publish_url_dropped(m, url) == Called(m, "publish_url")

\* self._ingress.publish_url(self._ingress.relations[0], url)
publish_url(m, url) == [Called(m, "publish_url") EXCEPT !.ingress = url]

\* self._ingress.wipe_ingress_data(self._ingress.relations[0])
wipe_ingress_data(m) == [Called(m, "wipe_ingress_data") EXCEPT !.ingress = None]

----------------------------------------------------------------------------
(* CloudflareConfiguratorCharm *)

AppName == "cloudflare-configurator"

ActiveStatus == [name |-> "active", message |-> ""]
BlockedStatus(message) == [name |-> "blocked", message |-> message]
WaitingStatus(message) == [name |-> "waiting", message |-> message]
UnknownStatus == [name |-> "unknown", message |-> ""]

\* ', '.join(missing)
RECURSIVE join(_)
join(missing) ==
    IF Len(missing) = 0 THEN ""
    ELSE IF Len(missing) = 1 THEN Head(missing)
    ELSE Head(missing) \o ", " \o join(Tail(missing))

\* self._cloudflare_route.relation: the cloudflared-route relation, if there is
\* one.  (The library as it stands in lib/ defines no such property; it is
\* taken to be what the methods of the provider fetch with get_relation.)
cloudflare_route_relation(m) == m.relation

\* _get_tunnel_tokens(): the token, None when the option is not set, or an
\* exception: InvalidConfig, or what model.get_secret raises.
_get_tunnel_tokens(credential) ==
    LET secret_id == credential.id IN
    IF ~Falsy(secret_id)
    THEN IF ~credential.found THEN Raised("SecretNotFoundError")
         ELSE LET secret_value ==
                      content_get(credential.content, _TUNNEL_TOKEN_SECRET_VALUE_FIELD)
              IN IF secret_value = None THEN Raised("InvalidConfig") ELSE Returned(secret_value)
    ELSE Returned(None)

\* str(exc) of the InvalidConfig that _get_tunnel_tokens raises
InvalidConfigMessage(secret_id) == "missing 'tunnel-token' in juju secret: " \o secret_id

\* An _unpublish_ingress_url that leaves the url where it is.
_unpublish_ingress_url_skipped(m) == m

\* _unpublish_ingress_url()
_unpublish_ingress_url(m) ==
    IF m.raised # None THEN m
    ELSE IF ingress_relations(m) THEN wipe_ingress_data(m)
    ELSE m

\* A _cleanup that revokes the token with unset_tunnel_token.
_cleanup_revokes(m) ==
    LET m1 == IF cloudflare_route_relation(m)
              THEN unset_tunnel_token(set_nameserver(m, None))
              ELSE m
    IN _unpublish_ingress_url(m1)

\* _cleanup(): the nameserver is unset, then set_tunnel_token is called with
\* None, then the ingress url is withdrawn.
_cleanup(m) ==
    LET m1 == IF cloudflare_route_relation(m)
              THEN set_tunnel_token(set_nameserver(m, None), None)
              ELSE m
    IN _unpublish_ingress_url(m1)

Pass(m, st) == [m |-> m, status |-> st]

\* The message of the status of a unit that is not the leader.  (The source
\* quotes the juju command in backquotes, which a TLA+ string cannot hold; they
\* are left out.)
SingleUnitMessage ==
    "this charm only supports a single unit, please remove the additional units "
    \o "using juju scale-application " \o AppName \o " 1"

\* A pass that leaves the nameserver alone when it has none to set.
_reconcile_leader_keeps_hint(m, prev, domain, credential, nameserver, k8s_dns) ==
    LET got == _get_tunnel_tokens(credential)
        tunnel_token == got.value
    IN
    IF got.raised = "InvalidConfig"
    THEN Pass(_cleanup(m), BlockedStatus(InvalidConfigMessage(credential.id)))
    ELSE IF got.raised # None THEN Pass(Raise(m, got.raised), prev)
    ELSE IF ~(~Falsy(domain) /\ ~Falsy(tunnel_token))
    THEN LET missing == (IF Falsy(domain) THEN <<"domain">> ELSE <<>>)
                        \o (IF Falsy(tunnel_token) THEN <<"tunnel-token">> ELSE <<>>)
         IN Pass(_cleanup(m),
                 WaitingStatus("waiting for " \o join(missing) \o " configuration"))
    ELSE IF ~cloudflare_route_relation(m)
    THEN Pass(_cleanup(m), WaitingStatus("waiting for cloudflared-route integration"))
    ELSE LET m1 == set_tunnel_token(m, tunnel_token)
             hint == IF ~Falsy(nameserver) THEN nameserver ELSE k8s_dns
             m2 == IF Falsy(hint) THEN m1 ELSE set_nameserver(m1, hint)
             m3 == IF m2.raised # None THEN m2
                   ELSE IF ingress_relations(m2)
                   THEN publish_url(m2, "https://" \o domain)
                   ELSE m2
         IN Pass(m3, IF m3.raised # None THEN prev ELSE ActiveStatus)

\* _reconcile(event) past the leadership check: the world after the handler
\* and the status it set; prev is the status before the handler, which stays
\* when the handler sets none.
_reconcile_leader(m, prev, domain, credential, nameserver, k8s_dns) ==
    LET got == _get_tunnel_tokens(credential)
        tunnel_token == got.value
    IN
    IF got.raised = "InvalidConfig"
    THEN Pass(_cleanup(m), BlockedStatus(InvalidConfigMessage(credential.id)))
    ELSE IF got.raised # None THEN Pass(Raise(m, got.raised), prev)
    ELSE IF ~(~Falsy(domain) /\ ~Falsy(tunnel_token))
    THEN LET missing == (IF Falsy(domain) THEN <<"domain">> ELSE <<>>)
                        \o (IF Falsy(tunnel_token) THEN <<"tunnel-token">> ELSE <<>>)
         IN Pass(_cleanup(m),
                 WaitingStatus("waiting for " \o join(missing) \o " configuration"))
    ELSE IF ~cloudflare_route_relation(m)
    THEN Pass(_cleanup(m), WaitingStatus("waiting for cloudflared-route integration"))
    ELSE LET m1 == set_tunnel_token(m, tunnel_token)
             m2 == set_nameserver(m1, IF ~Falsy(nameserver) THEN nameserver ELSE k8s_dns)
             m3 == IF m2.raised # None THEN m2
                   ELSE IF ingress_relations(m2)
                   THEN publish_url(m2, "https://" \o domain)
                   ELSE m2
         IN Pass(m3, IF m3.raised # None THEN prev ELSE ActiveStatus)

\* A pass that cleans up before it refuses to act without leadership.
_reconcile_cleanup_first(m, prev, leader, domain, credential, nameserver, k8s_dns) ==
    IF ~leader
    THEN Pass(_cleanup(m), BlockedStatus(SingleUnitMessage))
    ELSE _reconcile_leader(m, prev, domain, credential, nameserver, k8s_dns)

\* A pass that reports a malformed credential before it looks at leadership.
_reconcile_validates_first(m, prev, leader, domain, credential, nameserver, k8s_dns) ==
    IF ~leader /\ _get_tunnel_tokens(credential).raised # "InvalidConfig"
    THEN Pass(m, BlockedStatus(SingleUnitMessage))
    ELSE _reconcile_leader(m, prev, domain, credential, nameserver, k8s_dns)

\* _reconcile(event)
_reconcile(m, prev, leader, domain, credential, nameserver, k8s_dns) ==
    IF ~leader
    THEN Pass(m, BlockedStatus(SingleUnitMessage))
    ELSE _reconcile_leader(m, prev, domain, credential, nameserver, k8s_dns)

----------------------------------------------------------------------------
(* Actions *)

NoCredential == [id |-> None, found |-> FALSE, content |-> Content(None, None)]

\* What an action event ends with: event.fail(message), or
\* event.set_results({"ingress": json.dumps(ingress)}), or neither.
NoResults ==
    [failed |-> None, set |-> FALSE,
     ingress |-> [application_data |-> NoAppData, unit_data |-> <<>>]]

\* What is remembered of the operation that ran last: its argument, the
\* exception it ended with, what it returned and the calls it made; of a pass
\* of _reconcile also what the unit saw, the name of the status before it and
\* whether it repeats the pass before it; of get_tunnel_token the message of
\* the exception; of the action the requirer's data and the results.
Label(op, arg, raised, returned, calls) ==
    [op |-> op, arg |-> arg, raised |-> raised, returned |-> returned, calls |-> calls,
     message |-> None, requirer |-> NoRequirerData, results |-> NoResults,
     again |-> FALSE, before |-> None,
     leader |-> TRUE, domain |-> None, credential |-> NoCredential,
     nameserver |-> None, k8s_dns |-> None]

Init ==
    /\ relation = FALSE
    /\ data = EmptyData
    /\ store = [id \in SecretIds |-> NoSecret]
    /\ created = 0
    /\ ingress_relation = FALSE
    /\ ingress = None
    /\ status = UnknownStatus
    /\ last = Label("init", None, None, None, NoCalls)

\* The world after a handler.  What a handler did before an uncaught exception
\* stays done.  No secret is created beyond MaxSecrets.
Commit(m) ==
    /\ m.created <= MaxSecrets
    /\ data' = m.data
    /\ store' = m.store
    /\ created' = m.created
    /\ ingress' = m.ingress

\* config-changed, secret-changed, ingress data-provided, relation-changed of
\* cloudflared-route: one pass of _reconcile over what the unit sees.
\* The handler that ran last was a pass over the same configuration.
SamePass(leader, domain, credential, nameserver, k8s_dns) ==
    /\ last.op = "reconcile"
    /\ last.leader = leader
    /\ last.domain = domain
    /\ last.credential = credential
    /\ last.nameserver = nameserver
    /\ last.k8s_dns = k8s_dns

Reconcile(leader, domain, credential, nameserver, k8s_dns) ==
    \E pass \in {_reconcile(Machine, status, leader, domain, credential, nameserver, k8s_dns)} :
       /\ Commit(pass.m)
       /\ status' = pass.status
       /\ last' = [Label("reconcile", None, pass.m.raised, None, pass.m.calls) EXCEPT
                     !.leader = leader, !.domain = domain, !.credential = credential,
                     !.nameserver = nameserver, !.k8s_dns = k8s_dns,
                     !.again = SamePass(leader, domain, credential, nameserver, k8s_dns),
                     !.before = status.name]
       /\ UNCHANGED <<relation, ingress_relation>>

\* A call of a method of CloudflaredRouteProvider by the leader.
Call(op, arg, m) ==
    /\ Commit(m)
    /\ last' = Label(op, arg, m.raised, None, m.calls)
    /\ UNCHANGED <<relation, ingress_relation, status>>

SetTunnelToken(tunnel_token) ==
    \E m \in {set_tunnel_token(Machine, tunnel_token)} : Call("set_tunnel_token", tunnel_token, m)

UnsetTunnelToken ==
    \E m \in {unset_tunnel_token(Machine)} : Call("unset_tunnel_token", None, m)

SetNameserver(nameserver) ==
    \E m \in {set_nameserver(Machine, nameserver)} : Call("set_nameserver", nameserver, m)

\* The requirer reads the tunnel token from the relation.
GetTunnelToken ==
    /\ relation
    /\ \E got \in {get_tunnel_token(data, store)} :
          last' = [Label("get_tunnel_token", None, got.raised, got.value, NoCalls)
                     EXCEPT !.message = got.message]
    /\ UNCHANGED <<relation, data, store, created, ingress_relation, ingress, status>>

\* The cloudflared-route relation is established: its databag is empty.
RouteRelationCreated ==
    /\ ~relation
    /\ relation' = TRUE
    /\ data' = EmptyData
    /\ last' = Label("relation_created", None, None, None, NoCalls)
    /\ UNCHANGED <<store, created, ingress_relation, ingress, status>>

\* relation-broken of cloudflared-route: _on_relation_broken, after which the
\* relation and its databag are gone.
RouteRelationBroken(leader) ==
    /\ relation
    /\ \E m \in {_on_relation_broken(Machine, leader)} :
          /\ store' = m.store
          /\ last' = [Label("relation_broken", None, m.raised, None, m.calls) EXCEPT
                        !.leader = leader]
    /\ relation' = FALSE
    /\ data' = EmptyData
    /\ UNCHANGED <<created, ingress_relation, ingress, status>>

IngressRelationCreated ==
    /\ ~ingress_relation
    /\ ingress_relation' = TRUE
    /\ ingress' = None
    /\ last' = Label("ingress_created", None, None, None, NoCalls)
    /\ UNCHANGED <<relation, data, store, created, status>>

IngressRelationRemoved ==
    /\ ingress_relation
    /\ ingress_relation' = FALSE
    /\ ingress' = None
    /\ last' = Label("ingress_removed", None, None, None, NoCalls)
    /\ UNCHANGED <<relation, data, store, created, status>>

\* _on_get_ingress_data_action(event)
_on_get_ingress_data_action(m, requirer) ==
    IF ~ingress_relations(m)
    THEN [NoResults EXCEPT !.failed = "no ingress relation"]
    ELSE [NoResults EXCEPT
            !.set = TRUE,
            !.ingress = [application_data |-> requirer.app,
                         unit_data |-> sorted_by_host(requirer.units)]]

\* The get-ingress-data action runs; requirer is what the requirer holds on
\* the first ingress relation when there is one.
GetIngressData(requirer) ==
    /\ ~ingress_relation => requirer = NoRequirerData
    /\ \E results \in {_on_get_ingress_data_action(Machine, requirer)} :
          last' = [Label("get_ingress_data", None, None, None, NoCalls) EXCEPT
                     !.requirer = requirer, !.results = results]
    /\ UNCHANGED <<relation, data, store, created, ingress_relation, ingress, status>>

RequirerData ==
    {get_data(app, units) : app \in RequirerAppData, units \in RequirerUnits}
    \cup {NoRequirerData}

\* The inputs of the operations.
DomainConfigs == Domains \cup {None}
NameserverConfigs == Nameservers \cup {None, ""}
DnsAnswers == ClusterDns \cup {None}

\* _get_k8s_dns() is called only where _reconcile comes to set_nameserver with
\* no nameserver option to use; in every other pass there is no answer.
LooksUpDns(leader, domain, credential, nameserver) ==
    /\ leader
    /\ ~Falsy(domain)
    /\ _get_tunnel_tokens(credential).raised = None
    /\ ~Falsy(_get_tunnel_tokens(credential).value)
    /\ relation
    /\ Falsy(nameserver)
NameserverArgs == Nameservers \cup {None, ""}

\* What happens to the deployed charm: the events it observes that change what
\* it keeps, the relations coming and going, and the requirer reading its side
\* of the relation.  relation-broken is the one the leader handles.
CharmNext ==
    \/ \E leader \in BOOLEAN, domain \in DomainConfigs, credential \in CredentialConfigs,
          nameserver \in NameserverConfigs :
          \E k8s_dns \in IF LooksUpDns(leader, domain, credential, nameserver)
                         THEN DnsAnswers ELSE {None} :
             Reconcile(leader, domain, credential, nameserver, k8s_dns)
    \/ GetTunnelToken
    \/ RouteRelationCreated
    \/ RouteRelationBroken(TRUE)
    \/ IngressRelationCreated
    \/ IngressRelationRemoved

\* The same, with the methods of CloudflaredRouteProvider called in any order,
\* as a charm that uses the library may call them.
Next ==
    \/ CharmNext
    \/ \E tunnel_token \in Tokens : SetTunnelToken(tunnel_token)
    \/ UnsetTunnelToken
    \/ \E nameserver \in NameserverArgs : SetNameserver(nameserver)

Spec == Init /\ [][Next]_vars

\* The requirer's side on its own: a cloudflared-route relation whose databag
\* and secrets are whatever a provider may have left there, read by
\* get_tunnel_token.  A secret is none, removed, or live with one field.
AnySecret ==
    {NoSecret, [state |-> "removed", content |-> Content(None, None), granted |-> FALSE]}
    \cup {[state |-> "live", content |-> c, granted |-> g] :
            c \in {Content(_TUNNEL_TOKEN_SECRET_VALUE_FIELD, t) : t \in Tokens}
                  \cup {Content("foobar", "foobar")},
            g \in BOOLEAN}

QueryInit ==
    /\ relation = TRUE
    /\ \E secret_id \in {None} \cup SecretIds, nameserver \in {None} \cup Nameservers :
          data = [EmptyData EXCEPT ![_TUNNEL_TOKEN_SECRET_ID_FIELD] = secret_id,
                                   ![NAMESERVER_FIELD] = nameserver]
    /\ created \in 0..MaxSecrets
    /\ store \in [SecretIds -> AnySecret]
    /\ \A n \in 1..MaxSecrets : store[SecretId(n)].state # "none" <=> n <= created
    /\ ingress_relation = FALSE
    /\ ingress = None
    /\ status = UnknownStatus
    /\ last = Label("init", None, None, None, NoCalls)

QueryNext == GetTunnelToken

QuerySpec == QueryInit /\ [][QueryNext]_vars

\* The charm alone: the methods of the library run only where the charm calls
\* them, in _reconcile and on relation-broken.
CharmSpec == Init /\ [][CharmNext]_vars

\* The charm with relation-broken coming to a unit that is not the leader as
\* well.
BrokenNext ==
    \/ CharmNext
    \/ RouteRelationBroken(FALSE)

BrokenSpec == Init /\ [][BrokenNext]_vars

\* The charm with its get-ingress-data action, which reads and changes nothing.
ActionNext ==
    \/ CharmNext
    \/ \E requirer \in RequirerData : GetIngressData(requirer)

ActionSpec == Init /\ [][ActionNext]_vars

----------------------------------------------------------------------------
(* Properties.  A property of one operation is a property of every step the  *)
(* operation can take: [][Op(inputs) => what the step does]_vars.            *)

\* A configured credential that resolves to the token t.
ValidCredential(t) ==
    [id |-> ConfigSecretId, found |-> TRUE,
     content |-> Content("tunnel-token", t)]

\* The reference the databag holds is that of a secret that is there.
HoldsLiveReference ==
    /\ relation
    /\ data["tunnel_token_secret_id"] \in SecretIds
    /\ store[data["tunnel_token_secret_id"]].state = "live"

\* The step is a pass of _reconcile.
IsPass == last'.op = "reconcile"

\* C1: a pass of a unit that is not the leader ends Blocked with the
\* single-unit message and leaves the cloudflared-route databag, the ingress
\* record and the secrets as they were, whatever the domain, the credential,
\* the nameserver and the relations are.
C1_AuthorityInvariant ==
    [][(IsPass /\ ~last'.leader) =>
          /\ status'.name = "blocked"
          /\ status'.message =
               "this charm only supports a single unit, please remove the additional "
               \o "units using juju scale-application cloudflare-configurator 1"
          /\ data' = data
          /\ ingress' = ingress
          /\ store' = store
          /\ created' = created
          /\ last'.raised = None
          /\ last'.calls = NoCalls]_vars

\* C1 happens: a pass has just ended with the single-unit status while a
\* reference, a nameserver and an ingress url are published.
C1_Witness ==
    /\ last.op = "reconcile"
    /\ ~last.leader
    /\ status.name = "blocked"
    /\ status.message = SingleUnitMessage
    /\ HoldsLiveReference
    /\ data["nameserver"] # None
    /\ ingress # None

\* C2: a pass of the leader with a domain, a credential that resolves to a
\* token and a cloudflared-route relation that holds no reference yet ends
\* Active, and the databag then refers to a secret that did not exist before,
\* is granted to the relation and holds the token in its tunnel-token field.
C2_ConvergeFresh ==
    [][(/\ IsPass
        /\ last'.leader
        /\ last'.domain \in Domains
        /\ \E t \in Tokens : last'.credential = ValidCredential(t)
        /\ relation
        /\ data["tunnel_token_secret_id"] = None) =>
          /\ status' = [name |-> "active", message |-> ""]
          /\ last'.raised = None
          /\ data'["tunnel_token_secret_id"] \in SecretIds
          /\ store[data'["tunnel_token_secret_id"]].state = "none"
          /\ store'[data'["tunnel_token_secret_id"]] =
               [state |-> "live", granted |-> TRUE,
                content |-> [field |-> "tunnel-token",
                             value |-> last'.credential.content.value]]]_vars

\* C2 happens: a pass has just ended Active after creating and granting the
\* secret the databag refers to.
C2_Witness ==
    /\ last.op = "reconcile"
    /\ last.leader
    /\ last.credential \in {ValidCredential(t) : t \in Tokens}
    /\ status.name = "active"
    /\ last.calls.add_secret = 1
    /\ last.calls.grant = 1
    /\ HoldsLiveReference

\* A configured credential that resolves to a secret without the tunnel-token
\* field.
MalformedCredential ==
    [id |-> ConfigSecretId, found |-> TRUE, content |-> Content("foobar", "foobar")]

\* The credential of the pass is not configured, or resolves to a token.
UnsetOrValid ==
    \/ last'.credential = NoCredential
    \/ \E t \in Tokens : last'.credential = ValidCredential(t)

\* The pass is one of the leader that ends in the validation, the completeness
\* or the relation check.
EndsInCheck ==
    /\ IsPass
    /\ last'.leader
    /\ \/ last'.credential = MalformedCredential
       \/ UnsetOrValid /\ (last'.domain = None \/ last'.credential = NoCredential \/ ~relation)

\* After the step nothing is published: no reference and no nameserver in the
\* cloudflared-route databag, no url on the ingress relation.
CleanedUp ==
    /\ relation =>
          /\ data'["tunnel_token_secret_id"] = None
          /\ data'["nameserver"] = None
    /\ ingress_relation => ingress' = None

\* C3: after a pass of the leader that ends in the validation, the
\* completeness or the relation check, the cloudflared-route databag (if the
\* relation is there) holds no reference and no nameserver and the ingress
\* relation (if there) holds no url, whatever they held before.
C3_CleanupCompleteness == [][EndsInCheck => CleanedUp]_vars

\* C4: after unset_tunnel_token on a relation whose databag refers to a secret
\* that is there, get_tunnel_token of the requirer returns None and all
\* revisions of the secret are removed.
C4_Revocation ==
    [][(last'.op = "unset_tunnel_token" /\ HoldsLiveReference) =>
          /\ get_tunnel_token(data', store') = Returned(None)
          /\ store'[data["tunnel_token_secret_id"]].state = "removed"]_vars

\* C5: when a pass has ended Active and published a reference and a later pass
\* of the leader finds no domain, that pass removes all revisions of the
\* published secret and clears the reference from the databag.
C5_RegressionRetracts ==
    [][(/\ IsPass
        /\ last'.leader
        /\ last'.domain = None
        /\ (UnsetOrValid \/ last'.credential = MalformedCredential)
        /\ status.name = "active"
        /\ HoldsLiveReference) =>
          /\ store'[data["tunnel_token_secret_id"]].state = "removed"
          /\ data'["tunnel_token_secret_id"] = None]_vars

\* C6: a second set_tunnel_token with the value of the one before it leaves
\* the reference in the databag as it is and adds, grants, updates and removes
\* no secret.
C6_PublishIdempotent ==
    [][(/\ last.op = "set_tunnel_token"
        /\ last'.op = "set_tunnel_token"
        /\ last'.arg = last.arg) =>
          /\ data'["tunnel_token_secret_id"] = data["tunnel_token_secret_id"]
          /\ last'.calls.add_secret = 0
          /\ last'.calls.grant = 0
          /\ last'.calls.set_content = 0
          /\ last'.calls.remove_all_revisions = 0
          /\ store' = store
          /\ created' = created]_vars

\* C6 happens: set_tunnel_token has just returned without a call that changes
\* a secret, on a databag that refers to a secret holding its value.
C6_Witness ==
    /\ last.op = "set_tunnel_token"
    /\ last.raised = None
    /\ last.calls = NoCalls
    /\ HoldsLiveReference
    /\ store[data["tunnel_token_secret_id"]].content.value = last.arg

\* C7: set_tunnel_token on a relation whose databag holds a reference never
\* changes the reference and creates no secret, and after the call the secret
\* referred to holds the value of the call in its tunnel-token field.
C7_HandleStable ==
    [][(/\ last'.op = "set_tunnel_token"
        /\ relation
        /\ data["tunnel_token_secret_id"] # None) =>
          /\ data'["tunnel_token_secret_id"] = data["tunnel_token_secret_id"]
          /\ created' = created
          /\ last'.calls.add_secret = 0
          /\ store'[data["tunnel_token_secret_id"]].state = "live"
          /\ store'[data["tunnel_token_secret_id"]].content =
               [field |-> "tunnel-token", value |-> last'.arg]]_vars

\* C8: set_nameserver with "" or None ends without an exception and leaves no
\* nameserver key in the databag, whether there was one or not; with another
\* value it leaves the key equal to the value; the key is never "".
C8_AbsenceNotEmpty ==
    [][(last'.op = "set_nameserver" /\ relation) =>
          /\ last'.raised = None
          /\ data'["nameserver"] # ""
          /\ last'.arg \in {None, ""} => data'["nameserver"] = None
          /\ last'.arg \notin {None, ""} => data'["nameserver"] = last'.arg]_vars

\* C8 happens: set_nameserver("") has just returned and the databag has no
\* nameserver key.
C8_Witness ==
    /\ last.op = "set_nameserver"
    /\ last.arg = ""
    /\ last.raised = None
    /\ relation
    /\ data["nameserver"] = None

\* C9: a pass of the leader whose credential is not configured or resolves to
\* a token, and in which the domain, the credential or both are missing, ends
\* with the status Blocked and the message "waiting for <items>
\* configuration", the items being the missing ones, domain before
\* tunnel-token, joined by ", ".
C9_CompletenessBlocked ==
    [][(/\ IsPass
        /\ last'.leader
        /\ UnsetOrValid
        /\ (last'.domain = None \/ last'.credential = NoCredential)) =>
          /\ status'.name = "blocked"
          /\ status'.message =
               IF last'.domain = None /\ last'.credential = NoCredential
               THEN "waiting for domain, tunnel-token configuration"
               ELSE IF last'.domain = None
               THEN "waiting for domain configuration"
               ELSE "waiting for tunnel-token configuration"]_vars

\* C10: a pass of the leader whose configured credential resolves to a secret
\* without the tunnel-token field ends with the status Blocked naming the
\* field and the secret, cleans up fully and publishes no credential, no
\* nameserver and no url, whatever the domain and the relations are.
C10_InvalidCredential ==
    [][(IsPass /\ last'.leader /\ last'.credential = MalformedCredential) =>
          /\ status' = [name |-> "blocked",
                        message |-> "missing 'tunnel-token' in juju secret: secret:config"]
          /\ last'.raised = None
          /\ CleanedUp
          /\ last'.calls.add_secret = 0
          /\ last'.calls.set_content = 0
          /\ last'.calls.publish_url = 0]_vars

\* The pass is one of the leader with a domain and a credential that resolves
\* to a token.
FullConfig ==
    /\ IsPass
    /\ last'.leader
    /\ last'.domain \in Domains
    /\ \E t \in Tokens : last'.credential = ValidCredential(t)

\* C11: a pass of the leader with a domain and a valid credential but without
\* cloudflared-route relation ends Waiting for the cloudflared-route
\* integration, creates no secret, and leaves no url on the ingress relation
\* if there is one.
C11_ChannelPresence ==
    [][(FullConfig /\ ~relation) =>
          /\ status' = [name |-> "waiting",
                        message |-> "waiting for cloudflared-route integration"]
          /\ last'.raised = None
          /\ last'.calls.add_secret = 0
          /\ store' = store
          /\ created' = created
          /\ ingress_relation => ingress' = None]_vars

\* C11 happens: such a pass has just withdrawn the url from the ingress
\* relation.
C11_Witness ==
    /\ last.op = "reconcile"
    /\ last.leader
    /\ last.domain \in Domains
    /\ last.credential \in {ValidCredential(t) : t \in Tokens}
    /\ ~relation
    /\ status.name = "waiting"
    /\ ingress_relation
    /\ last.calls.wipe_ingress_data = 1
    /\ ingress = None

\* C12: a pass of the leader with a domain, a valid credential, the
\* cloudflared-route relation and an ingress relation ends Active with the url
\* https://<domain> published on the ingress relation.
C12_IngressPublication ==
    [][(FullConfig /\ relation /\ ingress_relation) =>
          /\ status' = [name |-> "active", message |-> ""]
          /\ last'.raised = None
          /\ last'.calls.publish_url = 1
          /\ ingress' = "https://" \o last'.domain]_vars

\* C12 happens: an Active pass has just published https://example.com on an
\* ingress relation.
C12_Witness ==
    /\ last.op = "reconcile"
    /\ status.name = "active"
    /\ relation
    /\ ingress_relation
    /\ last.calls.publish_url = 1
    /\ last.domain = "example.com"
    /\ ingress = "https://example.com"

\* C13: a pass of the leader with a domain, a valid credential and the
\* cloudflared-route relation but no ingress relation ends Active with the
\* token published as a granted secret the databag refers to, and calls
\* neither publish_url nor wipe_ingress_data.
C13_NoIngressMutation ==
    [][(FullConfig /\ relation /\ ~ingress_relation) =>
          /\ status' = [name |-> "active", message |-> ""]
          /\ last'.raised = None
          /\ data'["tunnel_token_secret_id"] \in SecretIds
          /\ store'[data'["tunnel_token_secret_id"]] =
               [state |-> "live", granted |-> TRUE,
                content |-> [field |-> "tunnel-token",
                             value |-> last'.credential.content.value]]
          /\ last'.calls.publish_url = 0
          /\ last'.calls.wipe_ingress_data = 0
          /\ ingress' = ingress]_vars

\* C13 happens: an Active pass has just published the token while there is no
\* ingress relation.
C13_Witness ==
    /\ last.op = "reconcile"
    /\ status.name = "active"
    /\ relation
    /\ ~ingress_relation
    /\ last.credential \in {ValidCredential(t) : t \in Tokens}
    /\ data["tunnel_token_secret_id"] \in SecretIds
    /\ store[data["tunnel_token_secret_id"]].content.value = last.credential.content.value
    /\ last.calls.publish_url = 0

\* The secret the databag refers to can be read by the requirer.
ReadableReference ==
    /\ data["tunnel_token_secret_id"] \in SecretIds
    /\ store[data["tunnel_token_secret_id"]].state = "live"
    /\ store[data["tunnel_token_secret_id"]].granted

\* C14: get_tunnel_token returns None exactly when the databag holds no
\* tunnel_token_secret_id; with a reference to a readable secret it returns
\* the value of the tunnel-token field if the content has one, and raises
\* InvalidIntegration with a message naming the field if it has not.
C14_AbsentOrCorrupt ==
    last.op = "get_tunnel_token" =>
      /\ (last.raised = None /\ last.returned = None)
           <=> data["tunnel_token_secret_id"] = None
      /\ (ReadableReference
          /\ store[data["tunnel_token_secret_id"]].content.field = "tunnel-token") =>
             /\ last.raised = None
             /\ last.returned = store[data["tunnel_token_secret_id"]].content.value
             /\ last.returned \in Tokens
      /\ (ReadableReference
          /\ store[data["tunnel_token_secret_id"]].content.field # "tunnel-token") =>
             /\ last.raised = "InvalidIntegration"
             /\ last.message = "secret doesn't have 'tunnel-token' field"

\* C14 happens: get_tunnel_token has just raised InvalidIntegration for a
\* readable secret that has a field other than tunnel-token.
C14_Witness ==
    /\ last.op = "get_tunnel_token"
    /\ ReadableReference
    /\ store[data["tunnel_token_secret_id"]].content.field = "foobar"
    /\ last.raised = "InvalidIntegration"

\* The units are in the order of their hosts.
SortedByHost(units) ==
    \A i, j \in 1..Len(units) : i < j => HostRank(units[i].host) <= HostRank(units[j].host)

\* C15: the get-ingress-data action fails with no results when there is no
\* ingress relation; when there is one it sets as results the application
\* data of the requirer and the data of all its units in the order of their
\* hosts; either way the databag, the secrets, the ingress relation, its url
\* and the status stay as they were.
C15_GetIngressData ==
    [][last'.op = "get_ingress_data" =>
          /\ UNCHANGED <<relation, data, store, created, ingress_relation, ingress, status>>
          /\ last'.raised = None
          /\ ~ingress_relation =>
                /\ last'.results.failed = "no ingress relation"
                /\ ~last'.results.set
          /\ ingress_relation =>
                /\ last'.results.failed = None
                /\ last'.results.set
                /\ last'.results.ingress.application_data = last'.requirer.app
                /\ Len(last'.results.ingress.unit_data) = Len(last'.requirer.units)
                /\ {last'.results.ingress.unit_data[i] :
                      i \in 1..Len(last'.results.ingress.unit_data)}
                     = {last'.requirer.units[i] : i \in 1..Len(last'.requirer.units)}
                /\ SortedByHost(last'.results.ingress.unit_data)]_vars

\* C15 happens: the action has just dumped two units that the requirer listed
\* against the order of their hosts, while a url is published.
C15_Witness ==
    /\ last.op = "get_ingress_data"
    /\ ingress_relation
    /\ ingress # None
    /\ last.results.set
    /\ Len(last.requirer.units) = 2
    /\ last.requirer.units[1].host = "example-host-1"
    /\ last.requirer.units[2].host = "example-host-0"
    /\ last.results.ingress.unit_data[1].host = "example-host-0"

\* The configuration lacks the domain, the credential or both.
Incomplete == last'.domain = None \/ last'.credential = NoCredential

\* C16: the status of a pass whose credential is unset, valid or malformed is
\* that of the first check that fails, in the order leadership, validation of
\* the credential, completeness of the configuration, presence of the
\* cloudflared-route relation, whatever the later checks would say; it is
\* Active exactly when all four pass.
C16_Precedence ==
    [][(IsPass /\ (UnsetOrValid \/ last'.credential = MalformedCredential)) =>
          /\ ~last'.leader =>
                status' = [name |-> "blocked", message |-> SingleUnitMessage]
          /\ (last'.leader /\ last'.credential = MalformedCredential) =>
                status' = [name |-> "blocked",
                           message |-> "missing 'tunnel-token' in juju secret: secret:config"]
          /\ (last'.leader /\ UnsetOrValid /\ Incomplete) =>
                status'.message =
                  IF last'.domain # None THEN "waiting for tunnel-token configuration"
                  ELSE IF last'.credential # NoCredential
                       THEN "waiting for domain configuration"
                       ELSE "waiting for domain, tunnel-token configuration"
          /\ (last'.leader /\ UnsetOrValid /\ ~Incomplete /\ ~relation) =>
                status' = [name |-> "waiting",
                           message |-> "waiting for cloudflared-route integration"]
          /\ status' = [name |-> "active", message |-> ""]
               <=> (last'.leader /\ UnsetOrValid /\ ~Incomplete /\ relation)]_vars

\* C16 happens: a pass of the leader in which the credential is malformed, the
\* domain is missing and the cloudflared-route relation is absent has just
\* ended Blocked over the credential.
C16_Witness ==
    /\ last.op = "reconcile"
    /\ last.leader
    /\ last.credential = MalformedCredential
    /\ last.domain = None
    /\ ~relation
    /\ status = [name |-> "blocked",
                 message |-> "missing 'tunnel-token' in juju secret: secret:config"]

\* C17: whenever the databag of the cloudflared-route relation holds a
\* tunnel_token_secret_id, the secret of that id exists with its revisions in
\* place, is granted to the relation, and holds a token in its tunnel-token
\* field; after any sequence of passes, set_tunnel_token, unset_tunnel_token
\* and relation-broken.
C17_CredentialRecord ==
    (relation /\ data["tunnel_token_secret_id"] # None) =>
       /\ data["tunnel_token_secret_id"] \in SecretIds
       /\ store[data["tunnel_token_secret_id"]].state = "live"
       /\ store[data["tunnel_token_secret_id"]].granted
       /\ store[data["tunnel_token_secret_id"]].content.field = "tunnel-token"
       /\ store[data["tunnel_token_secret_id"]].content.value \in Tokens

\* Nothing was ever published: the cloudflared-route relation is there with
\* an empty databag, no secret was ever created, no url is on an ingress
\* relation.
NothingPublished ==
    /\ relation
    /\ data = EmptyData
    /\ created = 0
    /\ store = [id \in SecretIds |-> NoSecret]
    /\ ingress = None

\* C18: a pass that ends in the validation or the completeness check while
\* nothing was ever published raises no error, creates no secret and leaves the
\* databag, the ingress relation and the secrets as they were.
C18_CleanupOnEmpty ==
    [][(EndsInCheck /\ NothingPublished) =>
          /\ last'.raised = None
          /\ last'.calls.add_secret = 0
          /\ data' = data
          /\ ingress' = ingress
          /\ store' = store
          /\ created' = created]_vars

\* C19: a pass that follows a pass over the same configuration, with no other
\* event in between, ends with the same status and the same error, if any, and
\* leaves the databag, the ingress relation and the secrets as the first pass
\* left them.
C19_Idempotent ==
    [][(IsPass /\ last'.again) =>
          /\ status' = status
          /\ last'.raised = last.raised
          /\ data' = data
          /\ ingress' = ingress
          /\ store' = store
          /\ created' = created]_vars

\* C19 happens: an Active pass has just followed a pass over the same
\* configuration and found the secret, the nameserver and the url in place.
C19_Witness ==
    /\ last.op = "reconcile"
    /\ last.again
    /\ status.name = "active"
    /\ last.raised = None
    /\ HoldsLiveReference
    /\ data["nameserver"] # None
    /\ ingress # None
    /\ last.calls.add_secret = 0
    /\ last.calls.set_content = 0

\* C20: after any passes and relation events, a pass of the leader with a
\* domain, a valid credential and the cloudflared-route relation ends Active,
\* and then the databag refers to a secret that is there and holds the token of
\* that pass, and get_tunnel_token returns that token to the requirer.
C20_Recovery ==
    [][(FullConfig /\ relation) =>
          /\ status' = [name |-> "active", message |-> ""]
          /\ last'.raised = None
          /\ data'["tunnel_token_secret_id"] \in SecretIds
          /\ store'[data'["tunnel_token_secret_id"]].state = "live"
          /\ store'[data'["tunnel_token_secret_id"]].content =
               [field |-> "tunnel-token", value |-> last'.credential.content.value]
          /\ get_tunnel_token(data', store') = Returned(last'.credential.content.value)]_vars

\* C20 happens: a pass has just ended Active where the pass before had ended
\* Waiting or Blocked, on a reference that was published earlier and was still
\* in the databag, and has replaced the token of its secret.
C20_Witness ==
    /\ last.op = "reconcile"
    /\ last.before \in {"waiting", "blocked"}
    /\ last.leader
    /\ last.domain \in Domains
    /\ last.credential \in {ValidCredential(t) : t \in Tokens}
    /\ status.name = "active"
    /\ HoldsLiveReference
    /\ last.calls.add_secret = 0
    /\ last.calls.set_content = 1
    /\ get_tunnel_token(data, store) = Returned(last.credential.content.value)

\* C21: every pass whose credential is unset, valid or malformed runs to its
\* end without raising and leaves the unit Active, Blocked or Waiting,
\* whatever the earlier passes and relation events left behind.
C21_PassTerminates ==
    [][(IsPass /\ (UnsetOrValid \/ last'.credential = MalformedCredential)) =>
          /\ last'.raised = None
          /\ status'.name \in {"active", "blocked", "waiting"}]_vars

\* C22: set_nameserver changes no key of the databag but nameserver and
\* changes no secret; set_tunnel_token and unset_tunnel_token leave the
\* nameserver key as it was; none of the three changes the ingress relation or
\* its url.
C22_IndependentLifecycles ==
    [][/\ last'.op = "set_nameserver" =>
             /\ \A key \in Keys \ {"nameserver"} : data'[key] = data[key]
             /\ store' = store
             /\ created' = created
             /\ last'.calls = NoCalls
       /\ last'.op \in {"set_tunnel_token", "unset_tunnel_token"} =>
             data'["nameserver"] = data["nameserver"]
       /\ last'.op \in {"set_nameserver", "set_tunnel_token", "unset_tunnel_token"} =>
             /\ ingress' = ingress
             /\ ingress_relation' = ingress_relation
             /\ last'.calls.publish_url = 0
             /\ last'.calls.wipe_ingress_data = 0]_vars

\* C22 happens: unset_tunnel_token has just removed the secret while a
\* nameserver and an ingress url are published, and both are still there.
C22_Witness ==
    /\ last.op = "unset_tunnel_token"
    /\ last.raised = None
    /\ last.calls.remove_all_revisions = 1
    /\ relation
    /\ data["nameserver"] \in Nameservers \cup ClusterDns
    /\ ingress # None

\* C23: when the cloudflared-route relation is broken and its databag holds a
\* tunnel_token_secret_id, all revisions of that secret are removed, whether
\* the unit is the leader or not; when the databag holds none, no call is made
\* on a secret.
C23_BrokenRevokes ==
    [][last'.op = "relation_broken" =>
          /\ data["tunnel_token_secret_id"] # None =>
                store'[data["tunnel_token_secret_id"]].state = "removed"
          /\ data["tunnel_token_secret_id"] = None =>
                /\ last'.calls = NoCalls
                /\ store' = store]_vars

\* The pass has ended Active without raising.
ActivePass ==
    /\ IsPass
    /\ last'.raised = None
    /\ status' = [name |-> "active", message |-> ""]

\* C24: after an Active pass the nameserver key of the databag is the
\* nameserver option when that is set and not empty, else the address of the
\* cluster DNS when the lookup gave one, else absent and never the empty
\* string, whatever nameserver an earlier pass left there.
C24_HintSelection ==
    [][ActivePass =>
          /\ last'.nameserver \notin {None, ""} => data'["nameserver"] = last'.nameserver
          /\ (last'.nameserver \in {None, ""} /\ last'.k8s_dns # None) =>
                data'["nameserver"] = last'.k8s_dns
          /\ (last'.nameserver \in {None, ""} /\ last'.k8s_dns = None) =>
                data'["nameserver"] = None
          /\ data'["nameserver"] # ""]_vars

\* C24 happens: an Active pass with an empty nameserver option and no answer
\* of the cluster DNS has just followed an Active pass and left the databag
\* without nameserver.
C24_Witness ==
    /\ last.op = "reconcile"
    /\ last.raised = None
    /\ status.name = "active"
    /\ last.before = "active"
    /\ ~last.again
    /\ last.nameserver = ""
    /\ last.k8s_dns = None
    /\ relation
    /\ data["nameserver"] = None

====
